---- MODULE Spec2Model ----
(***************************************************************************)
(* Model of standard_code_models/extend_model.py: the ModelBlocks parser / *)
(* editor of LightGBM text model files and its command line driver.        *)
(*                                                                         *)
(* A line is a sequence of one-character strings that keeps its "\n"       *)
(* terminator, a block is a sequence of lines, a file is a sequence of     *)
(* lines (what readlines() / iterating the file object returns).           *)
(***************************************************************************)
EXTENDS Integers, Sequences, FiniteSets, TLC

(* ----------------------------- bounds ---------------------------------- *)
\* longest input file, in lines, of the parser-only specification
MaxLines == 5
\* longest input file, in chunks (see Chunks), of the command specification
MaxChunks == 5
\* largest number_trees argument of the command specification
MaxAdd == 2

(* ------------------------ line literals -------------------------------- *)
NL == <<"\n">>
TreePrefix == <<"T", "r", "e", "e", "=">>
TreeSizesPrefix == <<"t", "r", "e", "e", "_", "s", "i", "z", "e", "s", "=">>
EndOfTreesLine == <<"e", "n", "d", " ", "o", "f", " ", "t", "r", "e", "e", "s", "\n">>
Digits == <<"0", "1", "2", "3", "4", "5", "6", "7", "8", "9">>

(* --------------------- Python built-ins used --------------------------- *)
\* str(n) of a non-negative int: its decimal digits
RECURSIVE Str(_)
Str(n) == IF n < 10 THEN <<Digits[n + 1]>>
          ELSE Str(n \div 10) \o <<Digits[(n % 10) + 1]>>

\* line.startswith(prefix)
StartsWith(line, prefix) ==
    /\ Len(line) >= Len(prefix)
    /\ SubSeq(line, 1, Len(prefix)) = prefix

\* " ".join(strs)
RECURSIVE Join(_)
Join(strs) == IF strs = <<>> THEN <<>>
              ELSE IF Len(strs) = 1 THEN strs[1]
              ELSE strs[1] \o <<" ">> \o Join(Tail(strs))

\* the lines of a list of blocks, block by block (for block ...: for line ...)
RECURSIVE Flatten(_)
Flatten(blocks) == IF blocks = <<>> THEN <<>>
                   ELSE blocks[1] \o Flatten(Tail(blocks))

(* --------------------- ModelBlocks.parse_file_blocks ------------------- *)
\* ParseLine with a blank line that follows a blank line opening a block of
\* its own, so that no block holds two blank lines (checks C10)
ParseLine_BlankOpensBlock(st, line) ==
    IF st.at_block \/ st.block = <<>>
    THEN [st EXCEPT !.block = Append(st.block, line), !.at_block = (line # NL)]
    ELSE [at_block |-> (line # NL),
          blocks   |-> Append(st.blocks, st.block),
          block    |-> <<line>>]

\* one iteration of "for line in f": st = [at_block, blocks, block]
ParseLine(st, line) ==
    IF line = NL
    THEN [st EXCEPT !.block = Append(st.block, line), !.at_block = FALSE]
    ELSE IF ~st.at_block
         THEN [at_block |-> TRUE,
               blocks   |-> IF st.block # <<>> THEN Append(st.blocks, st.block)
                            ELSE st.blocks,
               block    |-> <<line>>]
         ELSE [st EXCEPT !.block = Append(st.block, line)]

RECURSIVE ParseLoop(_, _)
ParseLoop(st, lines) ==
    IF lines = <<>> THEN st
    ELSE ParseLoop(ParseLine(st, lines[1]), Tail(lines))

\* parse_file_blocks without the flush after the loop (checks C3)
parse_file_blocks_NoFinalFlush(lines) ==
    ParseLoop([at_block |-> FALSE, blocks |-> <<>>, block |-> <<>>], lines).blocks

parse_file_blocks(lines) ==
    LET st == ParseLoop([at_block |-> FALSE, blocks |-> <<>>, block |-> <<>>], lines)
    IN  IF st.block # <<>> THEN Append(st.blocks, st.block) ELSE st.blocks

(* ------------------ ModelBlocks static helpers ------------------------- *)
\* "block and block[0].startswith('Tree=')"
is_tree_block(block) == block # <<>> /\ StartsWith(block[1], TreePrefix)

\* list(filter(ModelBlocks.is_tree_block, self.raw_blocks))
RECURSIVE FilterTreeBlocks(_)
FilterTreeBlocks(blocks) ==
    IF blocks = <<>> THEN <<>>
    ELSE (IF is_tree_block(blocks[1]) THEN <<blocks[1]>> ELSE <<>>)
         \o FilterTreeBlocks(Tail(blocks))

\* tree_size that leaves the line terminators out (checks C4)
RECURSIVE tree_size_NoTerminators(_)
tree_size_NoTerminators(block) ==
    IF block = <<>> THEN 0
    ELSE (Len(block[1]) - 1) + tree_size_NoTerminators(Tail(block))

\* sum(map(len, block))
RECURSIVE tree_size(_)
tree_size(block) == IF block = <<>> THEN 0
                    ELSE Len(block[1]) + tree_size(Tail(block))

\* find_end_of_trees_block without the len(block) == 2 test (checks C6)
find_end_of_trees_block_AnyLength(blocks) ==
    LET hits == {b \in 1..Len(blocks) : blocks[b][1] = EndOfTreesLine}
    IN  IF hits = {} THEN 0
        ELSE CHOOSE b \in hits : \A c \in hits : b <= c

\* position (from 1) of the first block with len(block) == 2 and
\* block[0] == "end of trees\n"; 0 stands for the raise at the end of the scan
find_end_of_trees_block(blocks) ==
    LET hits == {b \in 1..Len(blocks) :
                    Len(blocks[b]) = 2 /\ blocks[b][1] = EndOfTreesLine}
    IN  IF hits = {} THEN 0
        ELSE CHOOSE b \in hits : \A c \in hits : b <= c

\* self.raw_blocks[find_end_of_trees_block(self.raw_blocks):]
EndBlocksOf(blocks) ==
    SubSeq(blocks, find_end_of_trees_block(blocks), Len(blocks))

(* ------------------ ModelBlocks instance methods ----------------------- *)
\* f"tree_sizes={ssv}\n", ssv the space separated str(tree_size(block))
gen_tree_sizes_line(trees) ==
    TreeSizesPrefix
    \o Join([i \in 1..Len(trees) |-> Str(tree_size(trees[i]))])
    \o NL

\* the header lines, "tree_sizes=" lines replaced, then trees, then end blocks
yield_model_lines(header, trees, ends) ==
    [i \in 1..Len(header) |->
        IF ~StartsWith(header[i], TreeSizesPrefix) THEN header[i]
        ELSE gen_tree_sizes_line(trees)]
    \o Flatten(trees \o ends)

\* add_sampled_tree without the [:] copy: the rewritten first line is the
\* sampled tree's too (checks C5)
add_sampled_tree_NoCopy(trees, sample_tree_idx) ==
    LET N_trees  == Len(trees)
        new_tree == [trees[sample_tree_idx + 1] EXCEPT
                        ![1] = TreePrefix \o Str(N_trees) \o NL]
    IN  Append([trees EXCEPT ![sample_tree_idx + 1] = new_tree], new_tree)

\* the tree list after add_sampled_tree drew sample_tree_idx (counted from 0):
\* a copy of that tree, its first line rewritten to Tree=<len(tree_blocks)>
add_sampled_tree(trees, sample_tree_idx) ==
    LET new_tree == trees[sample_tree_idx + 1]
        N_trees  == Len(trees)
    IN  Append(trees, [new_tree EXCEPT ![1] = TreePrefix \o Str(N_trees) \o NL])

\* random.randrange(n), which can return 0 (checks C7)
randrange_0(n) == 0..(n - 1)

\* the values random.randrange(1, n) can return; empty when it raises
randrange_1(n) == 1..(n - 1)

(* ------------------------- input files --------------------------------- *)
XLine == <<"x", "\n">>
Tree0Line == TreePrefix \o <<"0", "\n">>
Tree10Line == TreePrefix \o <<"1", "0", "\n">>
Sizes2Line == TreeSizesPrefix \o <<"8", " ", "1", "1", "\n">>

\* every sequence over S of length at most n
RECURSIVE SeqsUpTo(_, _)
SeqsUpTo(S, n) ==
    IF n = 0 THEN {<<>>}
    ELSE LET shorter == SeqsUpTo(S, n - 1)
         IN  shorter \cup {Append(q, x) : q \in shorter, x \in S}

\* the lines the parser-only specification builds its files from
ParseAlphabet == {NL, XLine, Tree0Line, EndOfTreesLine}
ParseInputs == SeqsUpTo(ParseAlphabet, MaxLines)

\* the pieces the command specification builds its files from: a header
\* (holding the sizes of SmallTree then BigTree), two trees, the sentinel, a
\* lone blank line, and a paragraph that is none of these
HeaderTwoTrees == <<Sizes2Line, NL>>
SmallTree == <<Tree0Line, NL>>
BigTree == <<Tree10Line, XLine, NL>>
Sentinel == <<EndOfTreesLine, NL>>
OtherBlock == <<XLine, NL>>
Chunks == {HeaderTwoTrees, SmallTree, BigTree, Sentinel,
           <<NL>>, OtherBlock}
CommandInputs == {Flatten(cs) : cs \in SeqsUpTo(Chunks, MaxChunks)}

(* ----------------------------- state ----------------------------------- *)
VARIABLES
    input_lines,       \* the content of the file at input_path
    same_paths,        \* args.input_path == args.output_path
    number_trees,      \* args.number_trees
    pc,                \* where the run is
    err,               \* the exception that ended the run, "" while there is none
    raw_blocks,        \* what parse_file_blocks returned (parser-only runs)
    header_block,      \* ModelBlocks.header_block
    tree_blocks,       \* ModelBlocks.tree_blocks
    end_blocks,        \* ModelBlocks.end_blocks
    N_ORIGINAL_TREES,  \* ModelBlocks.N_ORIGINAL_TREES
    sampled,           \* the list add_sampled_trees is building
    in_read,           \* the input file has been opened and read
    out_opened,        \* the output file has been opened for writing
    out_file           \* the lines written to the output file

vars == <<input_lines, same_paths, number_trees, pc, err, raw_blocks,
          header_block, tree_blocks, end_blocks, N_ORIGINAL_TREES, sampled,
          in_read, out_opened, out_file>>

model_vars == <<header_block, tree_blocks, end_blocks, N_ORIGINAL_TREES>>

NoRun ==
    /\ err = ""
    /\ raw_blocks = <<>>
    /\ header_block = <<>>
    /\ tree_blocks = <<>>
    /\ end_blocks = <<>>
    /\ N_ORIGINAL_TREES = 0
    /\ sampled = <<>>
    /\ in_read = FALSE
    /\ out_opened = FALSE
    /\ out_file = <<>>

(* ------------------------ the command ---------------------------------- *)
Init ==
    /\ input_lines \in CommandInputs
    /\ same_paths \in BOOLEAN
    /\ number_trees \in -1..MaxAdd
    /\ pc = "main"
    /\ NoRun

Raise(e) ==
    /\ pc' = "raised"
    /\ err' = e

\* __main__ without the path check (checks C8)
Main_NoPathCheck ==
    /\ pc = "main"
    /\ pc' = "grow_model"
    /\ UNCHANGED <<input_lines, same_paths, number_trees, err, raw_blocks,
                   model_vars, sampled, in_read, out_opened, out_file>>

\* __main__ refusing a tree count below 1 (checks C9)
Main_RejectNonPositive ==
    /\ pc = "main"
    /\ IF same_paths THEN Raise("ValueError: same paths")
       ELSE IF number_trees <= 0 THEN Raise("ValueError: tree count")
       ELSE pc' = "grow_model" /\ err' = err
    /\ UNCHANGED <<input_lines, same_paths, number_trees, raw_blocks,
                   model_vars, sampled, in_read, out_opened, out_file>>

\* __main__: the path check, then the call of grow_model
Main ==
    /\ pc = "main"
    /\ IF same_paths
       THEN Raise("ValueError: same paths")
       ELSE pc' = "grow_model" /\ err' = err
    /\ UNCHANGED <<input_lines, same_paths, number_trees, raw_blocks,
                   model_vars, sampled, in_read, out_opened, out_file>>

\* ModelBlocks.__init__ as called by grow_model: parse, classify, self-check
Construct ==
    /\ pc = "grow_model"
    /\ in_read' = TRUE
    /\ LET blocks == parse_file_blocks(input_lines)
           header == blocks[1]
           trees  == FilterTreeBlocks(blocks)
           ends   == EndBlocksOf(blocks)
       IN  IF blocks = <<>>
           THEN Raise("IndexError") /\ UNCHANGED model_vars
           ELSE IF find_end_of_trees_block(blocks) = 0
           THEN Raise("Corrupt file") /\ UNCHANGED model_vars
           ELSE IF Len(input_lines) # Len(yield_model_lines(header, trees, ends))
           THEN Raise("Bug detected") /\ UNCHANGED model_vars
           ELSE /\ header_block' = header
                /\ tree_blocks' = trees
                /\ end_blocks' = ends
                /\ N_ORIGINAL_TREES' = Len(trees)
                /\ pc' = "add_sampled_trees"
                /\ err' = err
    /\ UNCHANGED <<input_lines, same_paths, number_trees, raw_blocks, sampled,
                   out_opened, out_file>>

\* one iteration of add_sampled_trees: one call of add_sampled_tree
AddSampledTree ==
    /\ pc = "add_sampled_trees"
    /\ Len(sampled) < number_trees
    /\ IF randrange_1(N_ORIGINAL_TREES) = {}
       THEN Raise("ValueError: empty range") /\ UNCHANGED <<tree_blocks, sampled>>
       ELSE \E sample_tree_idx \in randrange_1(N_ORIGINAL_TREES) :
               /\ tree_blocks' = add_sampled_tree(tree_blocks, sample_tree_idx)
               /\ sampled' = Append(sampled, sample_tree_idx)
               /\ UNCHANGED <<pc, err>>
    /\ UNCHANGED <<input_lines, same_paths, number_trees, raw_blocks,
                   header_block, end_blocks, N_ORIGINAL_TREES, in_read,
                   out_opened, out_file>>

\* write_to, reached when range(new_trees) is exhausted
WriteTo ==
    /\ pc = "add_sampled_trees"
    /\ Len(sampled) >= number_trees
    /\ out_opened' = TRUE
    /\ out_file' = yield_model_lines(header_block, tree_blocks, end_blocks)
    /\ pc' = "done"
    /\ UNCHANGED <<input_lines, same_paths, number_trees, err, raw_blocks,
                   model_vars, sampled, in_read>>

Next == Main \/ Construct \/ AddSampledTree \/ WriteTo

Spec == Init /\ [][Next]_vars

(* ------------------------ the parser alone ----------------------------- *)
InitParse ==
    /\ input_lines \in ParseInputs
    /\ same_paths = FALSE
    /\ number_trees = 0
    /\ pc = "parse_file_blocks"
    /\ NoRun

ParseFile ==
    /\ pc = "parse_file_blocks"
    /\ raw_blocks' = parse_file_blocks(input_lines)
    /\ in_read' = TRUE
    /\ pc' = "parsed"
    /\ UNCHANGED <<input_lines, same_paths, number_trees, err, model_vars,
                   sampled, out_opened, out_file>>

NextParse == ParseFile

SpecParse == InitParse /\ [][NextParse]_vars

(* ======================= properties ==================================== *)
Loaded == pc \in {"add_sampled_trees", "done"}

\* the concatenation of a sequence of sequences: the lines of a sequence of
\* blocks, the characters of a sequence of lines
RECURSIVE Concat(_)
Concat(seqs) == IF seqs = <<>> THEN <<>> ELSE seqs[1] \o Concat(Tail(seqs))
\* the number of characters of a block
ByteLength(block) == Len(Concat(block))

IsBlank(line) == line = NL

\* the decimal value of a digit string, -1 when it is not one
DigitValue(c) == IF \E d \in 1..10 : Digits[d] = c
                 THEN (CHOOSE d \in 1..10 : Digits[d] = c) - 1 ELSE -1
RECURSIVE ParseNat(_)
ParseNat(ds) ==
    IF ds = <<>> THEN -1
    ELSE LET last == DigitValue(ds[Len(ds)])
             front == SubSeq(ds, 1, Len(ds) - 1)
         IN  IF last < 0 THEN -1
             ELSE IF front = <<>> THEN last
             ELSE IF ParseNat(front) < 0 THEN -1
             ELSE 10 * ParseNat(front) + last

\* the space separated entries of a string of characters (none in an empty one)
RECURSIVE SplitSpaces(_, _)
SplitSpaces(chars, cur) ==
    IF chars = <<>> THEN <<cur>>
    ELSE IF chars[1] = " " THEN <<cur>> \o SplitSpaces(Tail(chars), <<>>)
    ELSE SplitSpaces(Tail(chars), Append(cur, chars[1]))
Entries(chars) == IF chars = <<>> THEN <<>> ELSE SplitSpaces(chars, <<>>)

\* the entries of a tree_sizes= line, as numbers
SizesOfLine(line) ==
    LET ssv == SubSeq(line, Len(TreeSizesPrefix) + 1, Len(line) - 1)
        es  == Entries(ssv)
    IN  [i \in 1..Len(es) |-> ParseNat(es[i])]
IsSizesLine(line) ==
    /\ StartsWith(line, TreeSizesPrefix)
    /\ line[Len(line)] = "\n"

\* the number a Tree=<n> line declares, -1 when the line is not of that form
DeclaredIndex(line) ==
    IF StartsWith(line, TreePrefix) /\ line[Len(line)] = "\n"
    THEN ParseNat(SubSeq(line, Len(TreePrefix) + 1, Len(line) - 1))
    ELSE -1

\* the tree blocks the model was loaded with
OriginalTrees == FilterTreeBlocks(parse_file_blocks(input_lines))

\* where, in a file, the first two-line "end of trees" paragraph starts (0: nowhere)
SentinelStarts(lines) ==
    {i \in 1..Len(lines) :
        /\ lines[i] = EndOfTreesLine
        /\ i = 1 \/ IsBlank(lines[i - 1])
        /\ i + 1 <= Len(lines) /\ IsBlank(lines[i + 1])
        /\ i + 2 > Len(lines) \/ ~IsBlank(lines[i + 2])}
SentinelPos(lines) ==
    IF SentinelStarts(lines) = {} THEN 0
    ELSE CHOOSE i \in SentinelStarts(lines) : \A j \in SentinelStarts(lines) : i <= j

\* two files agree on every line but the tree_sizes= lines of the first
SameButSizes(inp, out) ==
    /\ Len(inp) = Len(out)
    /\ \A i \in 1..Len(inp) :
          StartsWith(inp[i], TreeSizesPrefix) \/ out[i] = inp[i]

\* the valid input format: a header paragraph with exactly one tree_sizes= line
\* (and that is not itself a tree), paragraphs starting with Tree=, the
\* two-line sentinel, then paragraphs of any content
ValidFormat(lines) ==
    LET bs == parse_file_blocks(lines)
    IN  /\ bs # <<>>
        /\ ~IsBlank(lines[1])
        /\ Cardinality({i \in 1..Len(bs[1]) :
                            StartsWith(bs[1][i], TreeSizesPrefix)}) = 1
        /\ ~StartsWith(bs[1][1], TreePrefix)
        /\ \E s \in 2..Len(bs) :
              /\ bs[s] = <<EndOfTreesLine, NL>>
              /\ \A t \in 2..(s - 1) : StartsWith(bs[t][1], TreePrefix)

\* the tree_sizes= entries of a valid file are the byte sizes of its trees
InputSizesTrue(lines) ==
    LET bs == parse_file_blocks(lines)
        s  == CHOOSE s \in 2..Len(bs) :
                 /\ bs[s] = <<EndOfTreesLine, NL>>
                 /\ \A t \in 2..(s - 1) : StartsWith(bs[t][1], TreePrefix)
        h  == CHOOSE i \in 1..Len(bs[1]) : StartsWith(bs[1][i], TreeSizesPrefix)
    IN  /\ IsSizesLine(bs[1][h])
        /\ SizesOfLine(bs[1][h]) = [t \in 1..(s - 2) |-> ByteLength(bs[t + 1])]

(* ----------------------- parser claims --------------------------------- *)
\* C3: parse_file_blocks is lossless and order preserving: the blocks it
\* returns are non-empty and their lines, taken block after block, are exactly
\* the lines of the file, also when the file does not end with a blank line;
\* an empty file gives no block.
C3_ParseLossless ==
    pc = "parsed" =>
        /\ Concat(raw_blocks) = input_lines
        /\ \A b \in 1..Len(raw_blocks) : raw_blocks[b] # <<>>
        /\ (input_lines = <<>>) = (raw_blocks = <<>>)

C3_Witness ==
    /\ pc = "parsed"
    /\ Len(raw_blocks) >= 2
    /\ ~IsBlank(input_lines[Len(input_lines)])

\* the shape the claim states: non-blank lines then exactly one blank line,
\* which the last block may lack
OneBlankShape(block, isLast) ==
    LET n == Len(block)
    IN  /\ n >= 1
        /\ \A i \in 1..(n - 1) : ~IsBlank(block[i])
        /\ IF isLast THEN TRUE ELSE n >= 2 /\ IsBlank(block[n])

\* the shape the code produces: non-blank lines then blank lines
RunShape(block) ==
    \E k \in 0..Len(block) :
        /\ \A i \in 1..k : ~IsBlank(block[i])
        /\ \A i \in (k + 1)..Len(block) : IsBlank(block[i])

\* C10 as stated: every block but possibly the last is a maximal run of one or
\* more non-blank lines followed by exactly one blank line, its last line; the
\* last block is a run of non-blank lines optionally followed by one blank line.
C10_OneBlankLine ==
    pc = "parsed" =>
        \A b \in 1..Len(raw_blocks) : OneBlankShape(raw_blocks[b], b = Len(raw_blocks))

\* C10 as the code has it: every block is a run of non-blank lines followed by
\* all the blank lines that come next in the file (one or more; none only in
\* the last block); only the first block can lack the non-blank lines, when the
\* file starts with blank lines.
C10_BlankRuns ==
    pc = "parsed" =>
        \A b \in 1..Len(raw_blocks) :
            LET block == raw_blocks[b]
            IN  /\ block # <<>>
                /\ RunShape(block)
                /\ b > 1 => ~IsBlank(block[1])
                /\ b < Len(raw_blocks) => IsBlank(block[Len(block)])

C10_Witness ==
    /\ pc = "parsed"
    /\ Len(raw_blocks) = 3
    /\ IsBlank(raw_blocks[1][1])
    /\ Len(raw_blocks[2]) = 3 /\ IsBlank(raw_blocks[2][2])

(* ----------------------- command claims -------------------------------- *)
Serialized == yield_model_lines(header_block, tree_blocks, end_blocks)
ConstructionFailed == err \in {"IndexError", "Corrupt file", "Bug detected"}

\* C1: round trip. For every file in the valid input format, construction
\* succeeds and, before any duplication, the serialized lines equal the file's
\* at every position but the tree_sizes= line, which is equal too when the
\* file's entries were the true sizes of its trees.
C1_RoundTrip ==
    (in_read /\ ValidFormat(input_lines)) =>
        /\ ~ConstructionFailed
        /\ (Loaded /\ sampled = <<>>) =>
              /\ SameButSizes(input_lines, Serialized)
              /\ InputSizesTrue(input_lines) => Serialized = input_lines

\* the same for the runs where construction did succeed (not the claim: it
\* leaves out the files construction rejects)
C1_RoundTripWhenLoaded ==
    (Loaded /\ sampled = <<>> /\ ValidFormat(input_lines)) =>
        /\ SameButSizes(input_lines, Serialized)
        /\ InputSizesTrue(input_lines) => Serialized = input_lines

\* C2: the self-check guarantees a lossless reconstruction. Whatever the file,
\* when construction completes, header block + tree blocks + end blocks, line
\* by line, is the file (but for the regenerated tree_sizes= line).
C2_CheckedLossless ==
    (Loaded /\ sampled = <<>>) =>
        /\ Concat(<<header_block>> \o tree_blocks \o end_blocks) = input_lines
        /\ SameButSizes(input_lines, Serialized)

\* C4: tree_sizes correctness. After any number of duplications the line of
\* gen_tree_sizes_line, which is the line serialized in place of the header's
\* tree_sizes= line, has one entry per tree block, the i-th being the number of
\* characters of the i-th block, terminators and trailing blank lines included.
C4_TreeSizes ==
    Loaded =>
        LET line == gen_tree_sizes_line(tree_blocks)
        IN  /\ IsSizesLine(line)
            /\ SizesOfLine(line) =
                  [i \in 1..Len(tree_blocks) |-> ByteLength(tree_blocks[i])]
            /\ \A i \in 1..Len(header_block) :
                  StartsWith(header_block[i], TreeSizesPrefix) =>
                      /\ Serialized[i] = line
                      /\ pc = "done" => out_file[i] = line

C4_Witness ==
    /\ pc = "done"
    /\ Len(sampled) = 2
    /\ \E i \in 1..Len(header_block) : StartsWith(header_block[i], TreeSizesPrefix)
    /\ ByteLength(tree_blocks[Len(tree_blocks)])
          # ByteLength(tree_blocks[sampled[2] + 1])

\* C5: append-only contiguous indexing. The tree sequence is the T0 trees the
\* model was loaded with, unchanged and in order, followed by one new block
\* per duplication, whose first lines declare T0, T0+1, ... in that order; when
\* add_sampled_trees(N) has returned, N >= 0, there are T0 + N blocks.
C5_Contiguous ==
    Loaded =>
        LET T0 == Len(OriginalTrees)
        IN  /\ Len(tree_blocks) = T0 + Len(sampled)
            /\ SubSeq(tree_blocks, 1, T0) = OriginalTrees
            /\ \A k \in 1..Len(sampled) :
                  /\ DeclaredIndex(tree_blocks[T0 + k][1]) = T0 + k - 1
                  /\ Len(tree_blocks[T0 + k][1])
                        = Len(TreePrefix) + Len(Str(T0 + k - 1)) + 1
            /\ (pc = "done" /\ number_trees >= 0) =>
                  Len(tree_blocks) = T0 + number_trees

C5_Witness ==
    /\ pc = "done"
    /\ number_trees = 2
    /\ Len(tree_blocks) = 5
    /\ DeclaredIndex(tree_blocks[2][1]) = 10

\* C6: sentinel preservation. Whenever construction succeeded, after any
\* number of duplications, the lines serialized after the last tree block are
\* the file's lines from its first two-line "end of trees" paragraph to its
\* end; the end blocks never change.
C6_SentinelPreserved ==
    Loaded =>
        LET k     == SentinelPos(input_lines)
            tail  == SubSeq(input_lines, k, Len(input_lines))
            front == Len(header_block) + Len(Concat(tree_blocks))
        IN  /\ k > 0
            /\ Concat(end_blocks) = tail
            /\ SubSeq(Serialized, front + 1, Len(Serialized)) = tail
            /\ pc = "done" => SubSeq(out_file, front + 1, Len(out_file)) = tail

C6_Witness ==
    /\ pc = "done"
    /\ Len(sampled) >= 1
    /\ Len(end_blocks) >= 2
    /\ SentinelPos(input_lines) > 0

\* C7: sampling domain. Every index add_sampled_tree returned lies in
\* [1, T0), T0 the tree count at load time: neither tree 0 nor an appended
\* copy is ever sampled. With T0 = 1 (or 0) the duplication fails and leaves
\* the tree sequence as it was.
C7_SamplingDomain ==
    LET T0 == Len(OriginalTrees)
    IN  /\ \A k \in 1..Len(sampled) : 1 <= sampled[k] /\ sampled[k] < T0
        /\ Loaded => N_ORIGINAL_TREES = T0
        /\ (Loaded /\ T0 <= 1) => sampled = <<>> /\ tree_blocks = OriginalTrees
        /\ (pc = "done" /\ T0 <= 1) => number_trees <= 0
        /\ err = "ValueError: empty range" =>
              /\ T0 <= 1
              /\ sampled = <<>>
              /\ tree_blocks = OriginalTrees

C7_Witness ==
    /\ Len(sampled) = 2
    /\ sampled[1] # sampled[2]
    /\ Len(OriginalTrees) = 3

C7_WitnessEmptyDomain ==
    /\ err = "ValueError: empty range"
    /\ Len(OriginalTrees) = 1
    /\ tree_blocks = OriginalTrees

\* C8: no output on a fatal path. When the paths are identical, the file has
\* no block or no sentinel, the self-check fails or a duplication fails, the
\* run ends without the output file having been opened; the file is opened
\* only after parsing, self-check and every duplication succeeded.
C8_NoOutputOnFatalPath ==
    /\ (pc = "raised" \/ err # "") =>
          /\ ~out_opened /\ out_file = <<>>
          /\ ~ENABLED Next
    /\ same_paths => ~out_opened
    /\ (input_lines = <<>> \/ SentinelPos(input_lines) = 0) => ~out_opened
    /\ out_opened =>
          /\ pc = "done" /\ err = ""
          /\ in_read
          /\ Len(input_lines) = Len(yield_model_lines(header_block, OriginalTrees, end_blocks))
          /\ Len(sampled) >= number_trees
          /\ Len(tree_blocks) = Len(OriginalTrees) + Len(sampled)

C8_Witness ==
    /\ pc = "raised"
    /\ err = "ValueError: empty range"
    /\ in_read
    /\ ~out_opened

\* C9 as stated: a tree count of 0 or less is a fatal error reported before
\* any file I/O: the input file is not read and no output file is written.
C9_RejectedBeforeIO ==
    number_trees <= 0 => (~in_read /\ ~out_opened)

\* C9 as the code has it: a tree count of 0 or less is accepted and treated as
\* no duplication: the input is read, the only failures are those of the path
\* check and of construction, and when construction succeeds the command goes
\* on, without sampling, to write the unchanged model.
C9_NonPositiveIsNoDuplication ==
    number_trees <= 0 =>
        /\ sampled = <<>>
        /\ pc = "raised" => (err = "ValueError: same paths" \/ ConstructionFailed)
        /\ pc = "add_sampled_trees" => Len(sampled) >= number_trees
        /\ pc = "done" =>
              /\ in_read /\ out_opened
              /\ tree_blocks = OriginalTrees
              /\ out_file = yield_model_lines(header_block, OriginalTrees, end_blocks)

C9_Witness ==
    /\ number_trees = -1
    /\ pc = "done"
    /\ out_opened
    /\ Len(tree_blocks) = 2

====
